---------------------------- MODULE Spec2Model ----------------------------
(***************************************************************************)
(* gesichtool: face extraction tool.  A model of the command line parser,  *)
(* of main/run and of the per-image tasks that run behind a counting       *)
(* semaphore.  Two programs of the repository are modelled:                *)
(*   PROG_SRC     src/src/gesichtool.cpp  (OpenCV cascade only)            *)
(*   PROG_DLIB    src/unnamed/part_001    (dlib or OpenCV, --size)         *)
(* Strings are tuples of one-character strings, so that parsing and        *)
(* formatting are computed character by character.                         *)
(***************************************************************************)
EXTENDS Integers, Sequences, FiniteSets, TLC

\* ------------------------------------------------------------------ bounds
MaxArgs == 3
MaxImages == 2
MaxHW == 2

\* ---------------------------------------------------------------- programs
PROG_SRC == "src/src/gesichtool.cpp"
PROG_DLIB == "src/unnamed/part_001"
Programs == {PROG_SRC, PROG_DLIB}

\* ------------------------------------------------------------------ tokens
T_o == <<"-", "o">>
T_option == <<"-", "-", "o", "p", "t", "i", "o", "n">>
T_output == <<"-", "-", "o", "u", "t", "p", "u", "t">>
T_v == <<"-", "v">>
T_verbose == <<"-", "-", "v", "e", "r", "b", "o", "s", "e">>
T_h == <<"-", "h">>
T_help == <<"-", "-", "h", "e", "l", "p">>
T_n == <<"-", "n">>
T_min_neighbors == <<"-", "-", "m", "i", "n", "-", "n", "e", "i", "g", "h", "b", "o", "r", "s">>
T_min_size == <<"-", "-", "m", "i", "n", "-", "s", "i", "z", "e">>
T_max_size == <<"-", "-", "m", "a", "x", "-", "s", "i", "z", "e">>
T_size == <<"-", "-", "s", "i", "z", "e">>
T_opencv == <<"-", "-", "o", "p", "e", "n", "c", "v">>
T_dlib == <<"-", "-", "d", "l", "i", "b">>
T_empty == << >>
T_a == <<"a">>
T_b == <<"b">>
T_d == <<"d">>
T_7 == <<"7">>
T_2x3 == <<"2", "x", "3">>
T_3x2 == <<"3", "x", "2">>

\* ------------------------------------------------------- sscanf and stoi
Digits == {"0", "1", "2", "3", "4", "5", "6", "7", "8", "9"}

DigitVal(c) ==
  CASE c = "0" -> 0 [] c = "1" -> 1 [] c = "2" -> 2 [] c = "3" -> 3
    [] c = "4" -> 4 [] c = "5" -> 5 [] c = "6" -> 6 [] c = "7" -> 7
    [] c = "8" -> 8 [] c = "9" -> 9

RECURSIVE SkipSpace(_, _)
SkipSpace(s, i) ==
  IF i <= Len(s) /\ s[i] = " " THEN SkipSpace(s, i + 1) ELSE i

RECURSIVE ScanDigits(_, _, _)
ScanDigits(s, i, acc) ==
  IF i <= Len(s) /\ s[i] \in Digits
    THEN ScanDigits(s, i + 1, acc * 10 + DigitVal(s[i]))
    ELSE [val |-> acc, next |-> i]

\* The %d conversion (and std::stoi's prefix): blanks, a sign, digits.
ScanInt(s, i) ==
  LET j == SkipSpace(s, i)
      neg == j <= Len(s) /\ s[j] = "-"
      sgn == j <= Len(s) /\ s[j] \in {"-", "+"}
      k == IF sgn THEN j + 1 ELSE j
      d == ScanDigits(s, k, 0)
  IN  IF d.next = k
        THEN [ok |-> FALSE, val |-> 0, next |-> i]
        ELSE [ok |-> TRUE, val |-> IF neg THEN 0 - d.val ELSE d.val, next |-> d.next]

\* cv::Size to_size(text): sscanf(text, "%dx%d") must convert two fields.
to_size(text) ==
  LET w == ScanInt(text, 1)
  IN  IF ~w.ok \/ w.next > Len(text) \/ text[w.next] # "x"
        THEN [ok |-> FALSE, size |-> <<0, 0>>]
        ELSE LET h == ScanInt(text, w.next + 1)
             IN  IF h.ok THEN [ok |-> TRUE, size |-> <<w.val, h.val>>]
                         ELSE [ok |-> FALSE, size |-> <<0, 0>>]

stoi(text) == ScanInt(text, 1)

\* ----------------------------------------------------------------- Options
Size512 == <<512, 512>>
None == "nullopt"

Options(prog) ==
  IF prog = PROG_SRC
    THEN [images |-> << >>, output_directory |-> << >>,
          min_size |-> Size512, max_size |-> None,
          verbose |-> FALSE, min_neighbors |-> 3]
    ELSE [mode |-> "DLIB", images |-> << >>, output_directory |-> << >>,
          output_size |-> Size512,
          min_size |-> Size512, max_size |-> None,
          verbose |-> FALSE, min_neighbors |-> 3]

NoOptions == [images |-> << >>]

Returned(o) == [kind |-> "ok", opts |-> o]
Thrown(what) == [kind |-> what, opts |-> NoOptions]

IsDash(arg) == arg # << >> /\ arg[1] = "-"

check_output_only(o) ==
  IF o.output_directory = << >> THEN Thrown("ArgParseError")
  ELSE Returned(o)

\* The final tests of parse_args, after the loop over argv.
check_required(o) ==
  IF o.images = << >> THEN Thrown("ArgParseError")
  ELSE IF o.output_directory = << >> THEN Thrown("ArgParseError")
  ELSE Returned(o)

\* The loop of parse_args from argv_idx on (1-based here, 0-based in the code).
RECURSIVE parse_loop(_, _, _, _)
parse_loop(prog, args, idx, o) ==
  IF idx > Len(args) THEN check_required(o)
  ELSE LET arg == args[idx]
           hasVal == idx + 1 <= Len(args)
           val == args[idx + 1]
       IN
    IF ~IsDash(arg)
      THEN parse_loop(prog, args, idx + 1, [o EXCEPT !.images = Append(@, arg)])
    ELSE IF arg = T_o \/ arg = T_option
      THEN IF ~hasVal THEN Thrown("ArgParseError")
           ELSE parse_loop(prog, args, idx + 2, [o EXCEPT !.output_directory = val])
    ELSE IF arg = T_v \/ arg = T_verbose
      THEN parse_loop(prog, args, idx + 1, [o EXCEPT !.verbose = TRUE])
    ELSE IF arg = T_h \/ arg = T_help
      THEN [kind |-> "exit", opts |-> NoOptions]
    ELSE IF arg = T_n \/ arg = T_min_neighbors
      THEN IF ~hasVal THEN Thrown("ArgParseError")
           ELSE IF ~stoi(val).ok THEN Thrown("ArgParseError")
           ELSE parse_loop(prog, args, idx + 2, [o EXCEPT !.min_neighbors = stoi(val).val])
    ELSE IF arg = T_min_size
      THEN IF ~hasVal THEN Thrown("ArgParseError")
           ELSE IF ~to_size(val).ok THEN Thrown("runtime_error")
           ELSE parse_loop(prog, args, idx + 2, [o EXCEPT !.min_size = to_size(val).size])
    ELSE IF arg = T_max_size
      THEN IF ~hasVal THEN Thrown("ArgParseError")
           ELSE IF ~to_size(val).ok THEN Thrown("runtime_error")
           ELSE parse_loop(prog, args, idx + 2, [o EXCEPT !.max_size = to_size(val).size])
    ELSE IF prog = PROG_DLIB /\ arg = T_size
      THEN IF ~hasVal THEN Thrown("ArgParseError")
           ELSE IF ~to_size(val).ok THEN Thrown("runtime_error")
           ELSE parse_loop(prog, args, idx + 2, [o EXCEPT !.output_size = to_size(val).size])
    ELSE IF prog = PROG_DLIB /\ arg = T_opencv
      THEN parse_loop(prog, args, idx + 1, [o EXCEPT !.mode = "OPENCV"])
    ELSE IF prog = PROG_DLIB /\ arg = T_dlib
      THEN parse_loop(prog, args, idx + 1, [o EXCEPT !.mode = "DLIB"])
    ELSE Thrown("ArgParseError")

parse_args(prog, args) == parse_loop(prog, args, 1, Options(prog))


\* ------------------------------------------------- images and detectors
\* The files of the run: what cv::imread finds under each path.  Paths "a"
\* and "b" hold 4x4 images, every other path cannot be read (empty Mat).
EmptyMat == [id |-> "none", cols |-> 0, rows |-> 0]

imread(path) ==
  IF path = T_a THEN [id |-> "a", cols |-> 4, rows |-> 4]
  ELSE IF path = T_b THEN [id |-> "b", cols |-> 4, rows |-> 4]
  ELSE EmptyMat

Rect(x, y, w, h) == [x |-> x, y |-> y, width |-> w, height |-> h]

\* cv::CascadeClassifier::detectMultiScale: windows inside the image; one of
\* them ends on the right and bottom border.
detectMultiScale(image) ==
  IF image.id = "a" THEN <<Rect(1, 1, 2, 2), Rect(2, 2, 2, 2)>>
  ELSE IF image.id = "b" THEN <<Rect(0, 0, 4, 4)>>
  ELSE << >>

\* dlib::frontal_face_detector: its rectangles may leave the image.
frontal_face_detector(image) ==
  IF image.id = "a" THEN <<Rect(1, 1, 2, 2), Rect(0, 2, 2, 2)>>
  ELSE IF image.id = "b" THEN <<Rect(1, 1, 2, 2), Rect(0 - 1, 0, 3, 3)>>
  ELSE << >>

\* cv::Mat::operator()(Rect): the region must lie inside the matrix,
\* otherwise cv::Exception is thrown.
roi_inside(image, r) ==
  /\ 0 <= r.x /\ 0 <= r.width /\ r.x + r.width <= image.cols
  /\ 0 <= r.y /\ 0 <= r.height /\ r.y + r.height <= image.rows

\* cv::resize: throws on an empty source or an empty target size.
resize_ok(r, size) ==
  r.width > 0 /\ r.height > 0 /\ size[1] > 0 /\ size[2] > 0

inflation == 0

\* The rectangle extract_faces hands to the crop: the enlarged rectangle,
\* or the detector's rectangle when the enlarged one fails the bounds test.
enlarged_face(image, face) ==
  LET e == Rect(face.x - inflation, face.y - inflation,
                face.width + inflation * 2, face.height + inflation * 2)
  IN  IF \/ e.x < 0
         \/ e.y < 0
         \/ e.x + e.width >= image.cols
         \/ e.y + e.height >= image.rows
        THEN face
        ELSE e

\* ---------------------------------------------------- output file names
DigitChar(d) ==
  CASE d = 0 -> "0" [] d = 1 -> "1" [] d = 2 -> "2" [] d = 3 -> "3"
    [] d = 4 -> "4" [] d = 5 -> "5" [] d = 6 -> "6" [] d = 7 -> "7"
    [] d = 8 -> "8" [] d = 9 -> "9"

RECURSIVE DecDigits(_)
DecDigits(n) ==
  IF n < 10 THEN <<DigitChar(n)>>
  ELSE DecDigits(n \div 10) \o <<DigitChar(n % 10)>>

RECURSIVE ZeroPad(_, _)
ZeroPad(ds, width) ==
  IF Len(ds) >= width THEN ds ELSE ZeroPad(<<"0">> \o ds, width)

\* fmt's {:03d}: at least three characters, zero filled after the sign.
fmt_03d(n) ==
  IF n < 0 THEN <<"-">> \o ZeroPad(DecDigits(0 - n), 2)
  ELSE ZeroPad(DecDigits(n), 3)

\* std::filesystem::path operator/ with a relative right-hand side.
path_join(dir, name) ==
  IF dir = << >> THEN name
  ELSE IF dir[Len(dir)] = "/" THEN dir \o name
  ELSE dir \o <<"/">> \o name

\* The older single-image program of part_001 names its files by face only.
file_name_face_only(output_directory, image_idx, face_idx) ==
  path_join(output_directory,
            <<"f", "a", "c", "e">> \o fmt_03d(face_idx) \o <<".", "j", "p", "g">>)

\* output_directory / fmt::format("face{:03d}-{:03d}.jpg", image_idx, face_idx)
file_name(output_directory, image_idx, face_idx) ==
  path_join(output_directory,
            <<"f", "a", "c", "e">> \o fmt_03d(image_idx) \o <<"-">>
              \o fmt_03d(face_idx) \o <<".", "j", "p", "g">>)

\* ------------------------------------------------------------------ state
VARIABLES
  program,      \* which of the two programs runs
  argv,         \* the arguments after argv[0]
  hw,           \* what std::thread::hardware_concurrency() reports
  cascade,      \* the cascade file: "ok", "corrupt" (load fails), "missing"
  pcMain,       \* position of the main thread
  opts,         \* main's Options
  error,        \* the exception main catches, "none" without one
  dirCreated,   \* std::filesystem::create_directory has been called
  sem,          \* the counting semaphore's counter
  scopeAlive,   \* sem, futures and cascade_file of run are alive
  images_idx,   \* the launch loop's counter
  futIdx,       \* position of the loops over futures (get, destruction)
  pc,           \* per future: position of its task
  failed,       \* per future: the task ended by an exception
  faces,        \* per task: the rectangles its detector returned
  face_idx,     \* per task: extract_faces' counter
  out,          \* per task: the files it wrote, in order
  acquires,     \* per task: successful sem.acquire() calls
  releases,     \* per task: sem.release() calls
  strayAccess,  \* a task used sem, opts or cascade_file outside their lifetime
  lateRethrow   \* future.get() rethrew while another task had not ended

vars == <<program, argv, hw, cascade, pcMain, opts, error, dirCreated, sem,
          scopeAlive, images_idx, futIdx, pc, failed, faces, face_idx, out,
          acquires, releases, strayAccess, lateRethrow>>

world == <<program, argv, hw, cascade>>
taskVars == <<pc, failed, faces, face_idx, out, acquires, releases>>

Tasks == 1 .. Len(pc)
InSection == {"detect", "extract", "release"}
Holders == {t \in Tasks : pc[t] \in InSection}

\* Options has no mode and no output_size in src/src/gesichtool.cpp.
run_mode(prog, o) == IF prog = PROG_SRC THEN "OPENCV" ELSE o.mode
thumbnail_size(prog, o) == IF prog = PROG_SRC THEN Size512 ELSE o.output_size

\* ------------------------------------------------------ initial states
Start ==
  /\ pcMain = "parse_args"
  /\ opts = NoOptions
  /\ error = "none"
  /\ dirCreated = FALSE
  /\ sem = 0
  /\ scopeAlive = FALSE
  /\ images_idx = 0
  /\ futIdx = 0
  /\ pc = << >>
  /\ failed = << >>
  /\ faces = << >>
  /\ face_idx = << >>
  /\ out = << >>
  /\ acquires = << >>
  /\ releases = << >>
  /\ strayAccess = FALSE
  /\ lateRethrow = FALSE

SeqsUpTo(S, n) == UNION {[1 .. k -> S] : k \in 0 .. n}

\* Command lines of a batch run: [--opencv] [--size 2x3] IMAGE... -o d
ModeFlags == {<< >>, <<T_opencv>>}
SizeFlags == {<< >>, <<T_size, T_2x3>>, <<T_size, T_2x3, T_size, T_3x2>>}
ImagePaths == {T_a, T_b, T_empty}
RunArgs ==
  {m \o z \o imgs \o <<T_o, T_d>> :
     m \in ModeFlags, z \in SizeFlags,
     imgs \in SeqsUpTo(ImagePaths, MaxImages) \ {<< >>}}

\* Arbitrary short command lines over the words the parser distinguishes.
Words == {T_o, T_option, T_output, T_v, T_h, T_n, T_min_size, T_size,
          T_opencv, T_a, T_empty, T_7, T_2x3}
AnyArgs == SeqsUpTo(Words, MaxArgs)

Init ==
  /\ program \in Programs
  /\ argv \in RunArgs
  /\ hw \in 0 .. MaxHW
  /\ cascade \in {"ok", "corrupt", "missing"}
  /\ Start

InitArgs ==
  /\ program \in Programs
  /\ argv \in AnyArgs
  /\ hw = 1
  /\ cascade = "ok"
  /\ Start

\* ------------------------------------------------------------ main thread
\* main: Options const opts = parse_args(args); an exception goes to main's
\* catch block, -h/--help leaves through exit(EXIT_SUCCESS).
main_parse_args ==
  /\ pcMain = "parse_args"
  /\ LET r == parse_args(program, argv)
     IN  /\ opts' = r.opts
         /\ pcMain' = IF r.kind = "ok" THEN "run"
                      ELSE IF r.kind = "exit" THEN "exited"
                      ELSE "caught"
         /\ error' = IF r.kind \in {"ok", "exit"} THEN "none" ELSE r.kind
  /\ UNCHANGED <<world, dirCreated, sem, scopeAlive, images_idx, futIdx,
                 taskVars, strayAccess, lateRethrow>>

\* A variant of run that rewrites the output directory it was given.
run_normalising_directory ==
  /\ pcMain = "run"
  /\ dirCreated' = TRUE
  /\ opts' = [opts EXCEPT !.output_directory = @ \o <<"/">>]
  /\ pcMain' = "run_mode"
  /\ UNCHANGED <<world, error, sem, scopeAlive, images_idx, futIdx,
                 taskVars, strayAccess, lateRethrow>>

\* run: std::filesystem::create_directory(opts.output_directory), then the
\* switch on the mode.
run ==
  /\ pcMain = "run"
  /\ dirCreated' = TRUE
  /\ pcMain' = "run_mode"
  /\ UNCHANGED <<world, opts, error, sem, scopeAlive, images_idx, futIdx,
                 taskVars, strayAccess, lateRethrow>>

\* run_opencv / run_dlib up to the launch loop: cv::samples::findFile throws
\* when the cascade file is missing; then the semaphore is constructed.
run_begin ==
  /\ pcMain = "run_mode"
  /\ IF run_mode(program, opts) = "OPENCV" /\ cascade = "missing"
       THEN /\ pcMain' = "caught"
            /\ error' = "cv::Exception"
            /\ UNCHANGED <<sem, scopeAlive>>
       ELSE /\ pcMain' = "launch"
            /\ sem' = hw
            /\ scopeAlive' = TRUE
            /\ UNCHANGED error
  /\ UNCHANGED <<world, opts, dirCreated, images_idx, futIdx, taskVars,
                 strayAccess, lateRethrow>>

\* futures.push_back(std::async(std::launch::async, ...)) for one image.
run_launch ==
  /\ pcMain = "launch"
  /\ images_idx < Len(opts.images)
  /\ pc' = Append(pc, "wait")
  /\ failed' = Append(failed, FALSE)
  /\ faces' = Append(faces, << >>)
  /\ face_idx' = Append(face_idx, 0)
  /\ out' = Append(out, << >>)
  /\ acquires' = Append(acquires, 0)
  /\ releases' = Append(releases, 0)
  /\ images_idx' = images_idx + 1
  /\ pcMain' = IF images_idx + 1 < Len(opts.images) THEN "launch" ELSE "get"
  /\ UNCHANGED <<world, opts, error, dirCreated, sem, scopeAlive, futIdx,
                 strayAccess, lateRethrow>>

\* future.get(): blocks until the task has ended, rethrows its exception.
future_get ==
  /\ pcMain = "get"
  /\ pc[futIdx + 1] = "done"
  /\ IF failed[futIdx + 1]
       THEN /\ error' = "task exception"
            /\ lateRethrow' = \E u \in Tasks : pc[u] # "done"
            /\ pcMain' = "destroy"
            /\ futIdx' = 0
       ELSE /\ pcMain' = IF futIdx + 1 < Len(pc) THEN "get" ELSE "destroy"
            /\ futIdx' = IF futIdx + 1 < Len(pc) THEN futIdx + 1 ELSE 0
            /\ UNCHANGED <<error, lateRethrow>>
  /\ UNCHANGED <<world, opts, dirCreated, sem, scopeAlive, images_idx,
                 taskVars, strayAccess>>

async_state_unblocked(t) == TRUE

\* The destructor of a future from std::async(std::launch::async) blocks
\* until its task has ended.
async_state_ready(t) == pc[t] = "done"

\* ~vector<future<void>>: run's locals die in reverse order of declaration,
\* futures first; its elements are destroyed one after the other.
future_destroy ==
  /\ pcMain = "destroy"
  /\ async_state_ready(futIdx + 1)
  /\ pcMain' = IF futIdx + 1 < Len(pc) THEN "destroy" ELSE "leave"
  /\ futIdx' = IF futIdx + 1 < Len(pc) THEN futIdx + 1 ELSE 0
  /\ UNCHANGED <<world, opts, error, dirCreated, sem, scopeAlive, images_idx,
                 taskVars, strayAccess, lateRethrow>>

\* sem and cascade_file are destroyed; run returns, or the exception
\* reaches main's catch block.
run_leave ==
  /\ pcMain = "leave"
  /\ scopeAlive' = FALSE
  /\ pcMain' = IF error = "none" THEN "returned" ELSE "caught"
  /\ UNCHANGED <<world, opts, error, dirCreated, sem, images_idx, futIdx,
                 taskVars, strayAccess, lateRethrow>>

\* ------------------------------------------------------------------ tasks
acquire_ready_at_zero(s) == s >= 0

\* std::counting_semaphore::acquire blocks while the counter is 0.
acquire_ready(s) == s > 0

release_unless_thrown(s, threw) == IF threw THEN s ELSE s + 1

\* ~SemaphoreGuard runs m_sem.release() on return and on unwinding alike.
guard_release(s, threw) == s + 1

\* SemaphoreGuard guard(sem): the constructor's m_sem.acquire().
task_acquire(t) ==
  /\ pc[t] = "wait"
  /\ acquire_ready(sem)
  /\ sem' = sem - 1
  /\ pc' = [pc EXCEPT ![t] = "detect"]
  /\ acquires' = [acquires EXCEPT ![t] = @ + 1]
  /\ strayAccess' = (strayAccess \/ ~scopeAlive)
  /\ UNCHANGED <<world, pcMain, opts, error, dirCreated, scopeAlive,
                 images_idx, futIdx, failed, faces, face_idx, out, releases,
                 lateRethrow>>

\* What the task body does between the guard and extract_faces:
\*   OpenCV: load the cascade (throws when load fails), imread, skip an
\*           unreadable image, detectMultiScale;
\*   dlib:   imread, cvtColor (throws on an empty image), detector.
detect_outcome(prog, o, casc, path) ==
  LET image == imread(path)
  IN  IF run_mode(prog, o) = "OPENCV"
        THEN IF casc # "ok" THEN [threw |-> TRUE, faces |-> << >>]
             ELSE IF image = EmptyMat THEN [threw |-> FALSE, faces |-> << >>]
             ELSE [threw |-> FALSE, faces |-> detectMultiScale(image)]
        ELSE IF image = EmptyMat THEN [threw |-> TRUE, faces |-> << >>]
             ELSE [threw |-> FALSE, faces |-> frontal_face_detector(image)]

task_detect(t) ==
  /\ pc[t] = "detect"
  /\ LET r == detect_outcome(program, opts, cascade, opts.images[t])
     IN  /\ failed' = [failed EXCEPT ![t] = r.threw]
         /\ faces' = [faces EXCEPT ![t] = r.faces]
         /\ pc' = [pc EXCEPT ![t] = IF r.faces = << >> THEN "release" ELSE "extract"]
  /\ strayAccess' = (strayAccess \/ ~scopeAlive)
  /\ UNCHANGED <<world, pcMain, opts, error, dirCreated, sem, scopeAlive,
                 images_idx, futIdx, face_idx, out, acquires, releases,
                 lateRethrow>>

\* One iteration of the loop over faces: crop (throws when the rectangle
\* leaves the image), resize, imwrite, face_idx += 1.
task_extract(t) ==
  /\ pc[t] = "extract"
  /\ LET image == imread(opts.images[t])
         face == faces[t][face_idx[t] + 1]
         r == enlarged_face(image, face)
         size == thumbnail_size(program, opts)
     IN  IF roi_inside(image, r) /\ resize_ok(r, size)
           THEN /\ out' = [out EXCEPT ![t] = Append(@,
                             [name |-> file_name(opts.output_directory, t - 1, face_idx[t]),
                              rect |-> r, size |-> size])]
                /\ face_idx' = [face_idx EXCEPT ![t] = @ + 1]
                /\ pc' = [pc EXCEPT ![t] =
                            IF face_idx[t] + 1 < Len(faces[t]) THEN "extract" ELSE "release"]
                /\ UNCHANGED failed
           ELSE /\ failed' = [failed EXCEPT ![t] = TRUE]
                /\ pc' = [pc EXCEPT ![t] = "release"]
                /\ UNCHANGED <<out, face_idx>>
  /\ strayAccess' = (strayAccess \/ ~scopeAlive)
  /\ UNCHANGED <<world, pcMain, opts, error, dirCreated, sem, scopeAlive,
                 images_idx, futIdx, faces, acquires, releases, lateRethrow>>

\* The end of the task body, by return or by exception: ~SemaphoreGuard.
task_release(t) ==
  /\ pc[t] = "release"
  /\ sem' = guard_release(sem, failed[t])
  /\ releases' = [releases EXCEPT ![t] = IF sem' = sem THEN @ ELSE @ + 1]
  /\ pc' = [pc EXCEPT ![t] = "done"]
  /\ strayAccess' = (strayAccess \/ ~scopeAlive)
  /\ UNCHANGED <<world, pcMain, opts, error, dirCreated, scopeAlive,
                 images_idx, futIdx, failed, faces, face_idx, out, acquires,
                 lateRethrow>>

Next ==
  \/ main_parse_args
  \/ run
  \/ run_begin
  \/ run_launch
  \/ future_get
  \/ future_destroy
  \/ run_leave
  \/ \E t \in Tasks : task_acquire(t)
  \/ \E t \in Tasks : task_detect(t)
  \/ \E t \in Tasks : task_extract(t)
  \/ \E t \in Tasks : task_release(t)

Spec == Init /\ [][Next]_vars

SpecArgs == InitArgs /\ [][Next]_vars

\* ----------------------------------------------------------- properties
Parsed == pcMain # "parse_args"
ParseOK == Parsed /\ opts # NoOptions
AllLaunched == ParseOK /\ Len(pc) = Len(opts.images)
AllDone == AllLaunched /\ \A t \in Tasks : pc[t] = "done"
RunLeft == pcMain \in {"returned", "caught"}

\* C1: at most hardware_concurrency tasks are between their acquire and
\* their release at any time, every task found there holds a slot it has not
\* yet given back, and a task still waiting for its slot has not loaded,
\* detected or written anything.
C1_BoundedConcurrency ==
  /\ Cardinality(Holders) <= hw
  /\ \A t \in Tasks :
       /\ pc[t] \in InSection => acquires[t] = 1 /\ releases[t] = 0
       /\ pc[t] = "wait" => faces[t] = << >> /\ out[t] = << >> /\ ~failed[t]
       /\ (faces[t] # << >> \/ out[t] # << >> \/ failed[t]) => acquires[t] = 1

C1_Witness ==
  /\ hw >= 1
  /\ Cardinality(Holders) = hw
  /\ \E t \in Tasks : pc[t] = "wait"

\* Main is not blocked: it is neither in get() on a task that has not ended
\* nor in the destructor of such a task's future.
MainCanStep ==
  \/ pcMain \in {"parse_args", "run", "run_mode", "launch", "leave"}
  \/ pcMain = "get" /\ pc[futIdx + 1] = "done"
  \/ pcMain = "destroy" /\ async_state_ready(futIdx + 1)

\* Some task is not blocked: it holds a slot, or waits while one is free.
TaskCanStep ==
  \E t \in Tasks : pc[t] \in InSection \/ (pc[t] = "wait" /\ acquire_ready(sem))

\* C2: the run never gets stuck: in every reachable state either main has
\* ended (returned, caught an exception, or exited after the help) or some
\* step of main or of a task can be taken, so that under fair scheduling
\* every task gets its slot and run returns.
C2_NeverStuck ==
  pcMain \in {"returned", "caught", "exited"} \/ MainCanStep \/ TaskCanStep

\* C3: once run_opencv/run_dlib has been left, normally or by the exception
\* future.get() rethrew, every launched task has ended, and no task ever
\* used the semaphore, the options or the cascade file name outside their
\* lifetime.
C3_JoinsAllTasks ==
  /\ RunLeft => \A t \in Tasks : pc[t] = "done"
  /\ ~strayAccess

C3_Witness ==
  /\ pcMain = "caught"
  /\ error = "task exception"
  /\ lateRethrow
  /\ \A t \in Tasks : pc[t] = "done"

\* C4: free slots plus tasks holding a slot equal the initial count, every
\* task acquires at most once and releases exactly what it acquired, and
\* when all tasks have ended the semaphore is back at its initial count,
\* also for tasks that ended by an exception.
C4_SlotConservation ==
  /\ Tasks # {} => sem + Cardinality(Holders) = hw
  /\ \A t \in Tasks :
       /\ acquires[t] \in {0, 1}
       /\ releases[t] = (IF pc[t] = "done" THEN 1 ELSE 0)
       /\ releases[t] <= acquires[t]
  /\ AllDone => sem = hw

C4_Witness ==
  /\ AllDone
  /\ Len(pc) >= 2
  /\ \E t \in Tasks : failed[t]
  /\ \E t \in Tasks : ~failed[t] /\ out[t] # << >>
  /\ sem = hw

\* C5: after parse_args has returned no step of main, run or a task changes
\* the options.
C5_OptionsImmutable == [][Parsed => opts' = opts]_vars

C5_Witness ==
  /\ pcMain = "returned"
  /\ opts = parse_args(program, argv).opts
  /\ \E t \in Tasks : out[t] # << >>

\* No two (image, face) pairs of the run were written to the same file name.
C6_NamesDistinct ==
  \A t \in Tasks, u \in Tasks :
    \A i \in 1 .. Len(out[t]), j \in 1 .. Len(out[u]) :
      out[t][i].name = out[u][j].name => t = u /\ i = j

\* A step changes the position, detection results, counter and files of at
\* most one task.
C6_OneTaskPerStep ==
  Len(pc') = Len(pc) =>
    Cardinality({t \in Tasks :
                   <<pc[t], failed[t], faces[t], face_idx[t], out[t]>>
                   # <<pc'[t], failed'[t], faces'[t], face_idx'[t], out'[t]>>}) <= 1

\* C6: tasks share nothing but the semaphore: a step changes the local state
\* of at most one task, and no two (image, face) pairs of a run are written
\* to the same output file name face<image index>-<face index>.jpg.
C6_TasksIsolated == [](C6_NamesDistinct) /\ [][C6_OneTaskPerStep]_vars

C6_Witness ==
  \E t \in Tasks, u \in Tasks :
    /\ t # u
    /\ pc[t] = "extract" /\ pc[u] = "extract"
    /\ out[t] # << >> /\ out[u] # << >>

\* C7: a task that has ended wrote exactly one file per rectangle its
\* detector returned, in detection order, with face indices 0..k-1.
C7_OneFilePerFace ==
  \A t \in Tasks :
    pc[t] = "done" =>
      /\ Len(out[t]) = Len(faces[t])
      /\ \A j \in 1 .. Len(out[t]) :
           /\ out[t][j].name = file_name(opts.output_directory, t - 1, j - 1)
           /\ out[t][j].rect = faces[t][j]

\* C8: a command line made of "-o DIR" or "--output DIR" and one image, in
\* either order, is parsed successfully and yields DIR as output directory.
C8_OutputSpellings ==
  \A o \in {T_o, T_output}, dir \in Words, img \in Words :
    (/\ Parsed
     /\ ~IsDash(dir) /\ dir # << >> /\ ~IsDash(img)
     /\ argv \in {<<o, dir, img>>, <<img, o, dir>>})
      => ParseOK /\ opts.output_directory = dir

\* The WxH of the last --size option of a command line, 512x512 without one.
RECURSIVE requested_size(_, _)
requested_size(args, i) ==
  IF i < 1 THEN Size512
  ELSE IF args[i] = T_size /\ i < Len(args) /\ to_size(args[i + 1]).ok
    THEN to_size(args[i + 1]).size
  ELSE requested_size(args, i - 1)

\* C9: --size is accepted, and every thumbnail written has the size of the
\* last --size option, 512x512 without one.
C9_SizeOption ==
  /\ (Parsed /\ \A i \in 1 .. Len(argv) : argv[i] # T_opencv) => ParseOK
  /\ \A t \in Tasks : \A j \in 1 .. Len(out[t]) :
       out[t][j].size = requested_size(argv, Len(argv))

\* The usage's reading of a command line: the positions that hold an option
\* or an image, i.e. all but the values of the value-taking options.
ValueTaking(prog) ==
  {T_o, T_option, T_n, T_min_neighbors, T_min_size, T_max_size}
    \cup (IF prog = PROG_DLIB THEN {T_size} ELSE {})
SizeTaking(prog) ==
  {T_min_size, T_max_size} \cup (IF prog = PROG_DLIB THEN {T_size} ELSE {})
KnownOptions(prog) ==
  ValueTaking(prog) \cup {T_v, T_verbose, T_h, T_help}
    \cup (IF prog = PROG_DLIB THEN {T_opencv, T_dlib} ELSE {})

RECURSIVE OptionPositions(_, _, _)
OptionPositions(prog, args, i) ==
  IF i > Len(args) THEN {}
  ELSE {i} \cup OptionPositions(prog, args,
                                IF args[i] \in ValueTaking(prog) THEN i + 2 ELSE i + 1)

Positions == OptionPositions(program, argv, 1)
LacksImage == \A i \in Positions : IsDash(argv[i])
OutputAt == {i \in Positions : argv[i] \in {T_o, T_option} /\ i < Len(argv)}
LacksOutput ==
  \/ OutputAt = {}
  \/ \E i \in OutputAt : (\A k \in OutputAt : k <= i) /\ argv[i + 1] = << >>
HasUnknown == \E i \in Positions : IsDash(argv[i]) /\ argv[i] \notin KnownOptions(program)
EndsInOption == \E i \in Positions : argv[i] \in ValueTaking(program) /\ i = Len(argv)
HasHelp == \E i \in Positions : argv[i] \in {T_h, T_help}
HasBadSize ==
  \E i \in Positions :
    argv[i] \in SizeTaking(program) /\ i < Len(argv) /\ ~to_size(argv[i + 1]).ok
Unusable == LacksImage \/ LacksOutput \/ HasUnknown \/ EndsInOption

RunNotEntered ==
  /\ pcMain \in {"caught", "exited"}
  /\ ~dirCreated
  /\ Tasks = {}

\* C10 as stated: options are returned only with an image and a non-empty
\* output directory; every command line lacking an image, lacking an output
\* directory, holding an unknown dash-argument or ending in a value-taking
\* option raises ArgParseError; and then run is never entered.
C10_Original ==
  /\ ParseOK => opts.images # << >> /\ opts.output_directory # << >>
  /\ (Parsed /\ Unusable) => ~ParseOK /\ error = "ArgParseError"
  /\ (Parsed /\ ~ParseOK) => RunNotEntered

\* C10 amended: as above, except that the command line is left through
\* exit(EXIT_SUCCESS) when -h/--help is met first, and by std::runtime_error
\* when a malformed WxH value is met first; run is entered in none of them.
C10_ParseErrors ==
  /\ ParseOK => opts.images # << >> /\ opts.output_directory # << >>
  /\ (Parsed /\ Unusable) =>
       /\ ~ParseOK
       /\ pcMain = "exited" => HasHelp
       /\ pcMain = "caught" => error \in {"ArgParseError", "runtime_error"}
       /\ error = "runtime_error" => HasBadSize
       /\ (~HasHelp /\ ~HasBadSize) => error = "ArgParseError"
  /\ (Parsed /\ ~ParseOK) => RunNotEntered

C10_Witness ==
  /\ pcMain = "caught"
  /\ error = "ArgParseError"
  /\ EndsInOption /\ ~LacksImage
  /\ ~dirCreated

\* The bounds test of extract_faces on the enlarged rectangle.
fails_bounds_test(image, e) ==
  \/ e.x < 0
  \/ e.y < 0
  \/ e.x + e.width >= image.cols
  \/ e.y + e.height >= image.rows

\* C11: whenever a task is about to crop, the rectangle extract_faces hands
\* to image(enlarged_face) lies entirely inside the source image, and it is
\* the detector's own rectangle when the enlarged one fails the bounds test.
C11_CropInsideImage ==
  \A t \in Tasks :
    pc[t] = "extract" =>
      LET image == imread(opts.images[t])
          face == faces[t][face_idx[t] + 1]
          e == Rect(face.x - inflation, face.y - inflation,
                    face.width + inflation * 2, face.height + inflation * 2)
          r == enlarged_face(image, face)
      IN  /\ roi_inside(image, r)
          /\ fails_bounds_test(image, e) => r = face

=============================================================================
